---------------------------- MODULE Spec2Model ----------------------------
(***************************************************************************)
(* Model of LatencyTesterApp (src/latency_test.py): the jack_delay         *)
(* subprocess lifecycle, the parsing of its output, the 10 s deadline      *)
(* timer and the auto-connection of the selected physical ports.           *)
(***************************************************************************)
EXTENDS Integers, Sequences, FiniteSets, TLC

(***************************************************************************)
(* Bounds of the model.                                                    *)
(***************************************************************************)
\* Number of QProcess objects (sessions) ever created.
MaxSessions == 2
\* port_registered signals queued for the Qt main thread.
MaxQueue == 1
\* QTimer.singleShot(50, ...) timers pending per target slot.
MaxPending == 1

(***************************************************************************)
(* Text: a str is a sequence of one-character strings.                     *)
(***************************************************************************)
Digits == {"0", "1", "2", "3", "4", "5", "6", "7", "8", "9"}

DigitVal(c) ==
  CASE c = "0" -> 0 [] c = "1" -> 1 [] c = "2" -> 2 [] c = "3" -> 3
    [] c = "4" -> 4 [] c = "5" -> 5 [] c = "6" -> 6 [] c = "7" -> 7
    [] c = "8" -> 8 [] c = "9" -> 9

\* \d of the re module
IsDigit(c) == c \in Digits

\* \s of the re module
IsSpace(c) == c \in {" ", "\n", "\t", "\r"}

\* the line boundaries str.splitlines() splits on
IsLineEnd(c) == c = "\n"

FRAMES == <<"f", "r", "a", "m", "e", "s">>

MS == <<"m", "s">>

\* Position after the longest run of digits (or of white space) that starts
\* at position i of s, i itself when there is none: a greedy \d+ or \s+
\* whose successor in the pattern matches no digit (no white space).
RECURSIVE RunEnd(_, _, _)
RunEnd(s, i, digits) ==
  IF i <= Len(s) /\ (IF digits THEN IsDigit(s[i]) ELSE IsSpace(s[i]))
    THEN RunEnd(s, i + 1, digits)
    ELSE i

\* The matchers below take the position i where a part of a pattern has to
\* match and give the position after the match; 0 stands for no match, and
\* a part that follows a part that did not match does not match.

\* x+ at position i, where e is RunEnd from i
Plus(i, e) == IF i > 0 /\ e > i THEN e ELSE 0

\* \d+
DigitsEnd(s, i) == Plus(i, RunEnd(s, i, TRUE))

\* \s+
SpaceEnd(s, i) == Plus(i, RunEnd(s, i, FALSE))

\* a literal word
LitEnd(s, i, word) ==
  IF i > 0 /\ i + Len(word) - 1 <= Len(s)
       /\ \A k \in 1..Len(word) : s[i + k - 1] = word[k]
    THEN i + Len(word) ELSE 0

\* \d+\.\d+
NumEnd(s, i) == DigitsEnd(s, LitEnd(s, DigitsEnd(s, i), <<".">>))

\* r'\d+\.\d+\s+ms' at position i
LooseEndAt(s, i) == LitEnd(s, SpaceEnd(s, NumEnd(s, i)), MS)

\* re.search(r'\d+\.\d+\s+ms', data) is not None
LooseSearch(s) == \E i \in 1..Len(s) : LooseEndAt(s, i) # 0

\* r'(\d+\.\d+)\s+frames\s+' at position i: where group 2 has to start
Group2Start(s, i) == SpaceEnd(s, LitEnd(s, SpaceEnd(s, NumEnd(s, i)), FRAMES))

\* r'(\d+\.\d+)\s+frames\s+(\d+\.\d+)\s+ms' at position i
StrictEndAt(s, i) == LitEnd(s, SpaceEnd(s, NumEnd(s, Group2Start(s, i))), MS)

\* The least element of a set of positions, 0 for the empty set.
Least(S) == IF S = {} THEN 0 ELSE CHOOSE x \in S : \A y \in S : x <= y

\* Where re.search finds the strict pattern in a line: the leftmost match.
StrictSearch(line) == Least({i \in 1..Len(line) : StrictEndAt(line, i) # 0})

\* The number written with the digits ds.
RECURSIVE IntOf(_)
IntOf(ds) ==
  IF ds = <<>> THEN 0
  ELSE 10 * IntOf(SubSeq(ds, 1, Len(ds) - 1)) + DigitVal(ds[Len(ds)])

\* float(t) for t of the form \d+\.\d+ with its point at position dot, in
\* thousandths (the outputs of the model carry at most three decimals).
FloatAt(t, dot) ==
  1000 * IntOf(SubSeq(t, 1, dot - 1))
    + IntOf(SubSeq(SubSeq(t, dot + 1, Len(t)) \o <<"0", "0", "0">>, 1, 3))

ToFloat(t) == FloatAt(t, Least({k \in 1..Len(t) : t[k] = "."}))

\* match.group(1) and match.group(2) of a match at i, with group 2 at j
Groups(line, i, j) ==
  <<SubSeq(line, i, NumEnd(line, i) - 1), SubSeq(line, j, NumEnd(line, j) - 1)>>

\* (float(match.group(1)), float(match.group(2)))
SampleOf(groups) == <<ToFloat(groups[1]), ToFloat(groups[2])>>

\* What one line appends to latency_values: its sample, if it matches.
SampleAt(line, i) ==
  IF i = 0 THEN <<>> ELSE <<SampleOf(Groups(line, i, Group2Start(line, i)))>>

LineSample(line) == SampleAt(line, StrictSearch(line))

\* data.splitlines()
RECURSIVE SplitLines(_)
SplitAt(s, e) ==
  IF e = 0 THEN <<s>>
  ELSE <<SubSeq(s, 1, e - 1)>> \o SplitLines(SubSeq(s, e + 1, Len(s)))

SplitLines(s) ==
  IF s = <<>> THEN <<>>
  ELSE SplitAt(s, Least({i \in 1..Len(s) : IsLineEnd(s[i])}))

\* The loop of handle_latency_output over the lines of data: the samples
\* appended, in order.
RECURSIVE SamplesOfLines(_)
SamplesOfLines(ls) ==
  IF ls = <<>> THEN <<>> ELSE LineSample(Head(ls)) \o SamplesOfLines(Tail(ls))

ParseSamples(data) == SamplesOfLines(SplitLines(data))

(***************************************************************************)
(* The audio graph (the JACK server) and its ports.                        *)
(***************************************************************************)
ToolIn == "jack_delay:in"

ToolOut == "jack_delay:out"

ToolPorts == {ToolIn, ToolOut}

\* physical capture devices: JACK output ports
CapturePorts == {"system:capture_1"}

\* physical playback devices: JACK input ports
PlaybackPorts == {"system:playback_1"}

PhysicalPorts == CapturePorts \cup PlaybackPorts

\* port.is_input
IsInput(p) == p \in PlaybackPorts \cup {ToolIn}

\* the test of _on_port_registered for a physical port:
\* 'system:' in port_name or 'alsa_input' in port_name or 'alsa_output' in port_name
LooksPhysical(p) == p \in PhysicalPorts

\* self.latency_process = None
NoProc == 0

\* None, for the selected aliases and the placeholder item of the combo boxes
None == "None"

\* the executables shutil.which may find
Binaries == {"jack_delay", "jack_iodelay"}

(***************************************************************************)
(* What the tool may print in a session (stdout of jack_delay).            *)
(***************************************************************************)
Num(a, b) == <<a, ".">> \o b

MeasLine(f, m) == f \o <<" ">> \o FRAMES \o <<" ">> \o m \o <<" ">> \o MS \o <<"\n">>

NoSignalLine == <<"?", "\n">>

Scripts ==
  { MeasLine(Num("1", <<"5">>), Num("2", <<"5">>))
      \o MeasLine(<<"1">> \o Num("2", <<"5">>), Num("0", <<"2", "5">>)),
    NoSignalLine \o MeasLine(Num("1", <<"5">>), Num("2", <<"5">>)),
    NoSignalLine }

(***************************************************************************)
(* State.                                                                  *)
(***************************************************************************)
VARIABLES
  app,          \* the fields of the LatencyTesterApp object and its widgets
  procs,        \* state of every QProcess ever created, by session number
  script,       \* what the running tool has still to print
  pipe,         \* printed by the tool, not yet read by the application
  ports,        \* ports registered in the graph
  edges,        \* connections of the graph, <<source, destination>>
  regQueue,     \* port_registered signals queued for the main thread
  pendAttempt,  \* pending singleShot(50, _attempt_latency_auto_connection)
  pendRefresh,  \* pending singleShot(50, _populate_latency_combos)
  last,         \* history: what the last event handler did
  timerSession, \* history: session whose output started latency_timer
  sessionMode,  \* history: the mode the latest session was started in
  quietRuns,    \* history: reconciliations in a row on an unchanged graph
  fed           \* history: output handled past the connection signal

vars == <<app, procs, script, pipe, ports, edges, regQueue, pendAttempt,
          pendRefresh, last, timerSession, sessionMode, quietRuns, fed>>

\* The whole state as one value, so that a handler is a function of it and
\* the handlers one handler calls (slots run inside waitForFinished) compose.
World ==
  [app |-> app, procs |-> procs, script |-> script, pipe |-> pipe,
   ports |-> ports, edges |-> edges, regQueue |-> regQueue,
   pendAttempt |-> pendAttempt, pendRefresh |-> pendRefresh, last |-> last,
   timerSession |-> timerSession, sessionMode |-> sessionMode,
   quietRuns |-> quietRuns, fed |-> fed]

Becomes(w) ==
  /\ app' = w.app /\ procs' = w.procs /\ script' = w.script /\ pipe' = w.pipe
  /\ ports' = w.ports /\ edges' = w.edges /\ regQueue' = w.regQueue
  /\ pendAttempt' = w.pendAttempt /\ pendRefresh' = w.pendRefresh
  /\ last' = w.last /\ timerSession' = w.timerSession
  /\ sessionMode' = w.sessionMode /\ quietRuns' = w.quietRuns /\ fed' = w.fed

Sessions == 1..MaxSessions

\* A line of latency_results_text.
Msg(m) == <<m>>

NoOp == [op |-> "other", busy |-> FALSE, terminate |-> FALSE, kill |-> FALSE,
         raised |-> FALSE, stopped |-> NoProc, connects |-> <<>>,
         installed |-> {}, program |-> "", reports |-> 0, finished |-> <<>>,
         waited |-> "", reconciled |-> FALSE, arms |-> 0]

\* The handlers whose calls the history tells apart.
Observed == {"run", "stop", "timeout", "refresh", "select"}

\* The state as an event handler is entered.
Enter(w, name) ==
  [w EXCEPT !.last =
    [NoOp EXCEPT !.op = IF name \in Observed THEN name ELSE "other"]]

\* __init__ and setup_latency_tab
Init ==
  /\ app = [latency_process |-> NoProc,
            latency_values |-> <<>>,
            timer_active |-> FALSE,
            timer_conns |-> 0,
            latency_waiting_for_connection |-> FALSE,
            latency_selected_input_alias |-> None,
            latency_selected_output_alias |-> None,
            run_enabled |-> TRUE,
            stop_enabled |-> FALSE,
            raw_checked |-> FALSE,
            text |-> {Msg("Ready to test.")},
            input_items |-> CapturePorts,
            input_current |-> None,
            output_items |-> PlaybackPorts,
            output_current |-> None]
  /\ procs = [k \in Sessions |-> "Unborn"]
  /\ script = <<>>
  /\ pipe = <<>>
  /\ ports = PhysicalPorts
  /\ edges = {}
  /\ regQueue = <<>>
  /\ pendAttempt = 0
  /\ pendRefresh = 0
  /\ last = NoOp
  /\ timerSession = NoProc
  /\ sessionMode = "None"
  /\ quietRuns = 0
  /\ fed = [on |-> FALSE, base |-> <<>>, data |-> <<>>]

(***************************************************************************)
(* The handlers of the measurement session, as functions of the state.    *)
(***************************************************************************)
\* self.latency_process.state() != QProcess.ProcessState.NotRunning
StateNotRunning(w, k) == w.procs[k] \notin {"Starting", "Running"}

\* self.latency_process is not None and
\* self.latency_process.state() != QProcess.ProcessState.NotRunning
InProgress(w) ==
  /\ w.app.latency_process /= NoProc
  /\ ~StateNotRunning(w, w.app.latency_process)

\* A guard that takes a process that is still starting for none.
StartedInProgress(w) ==
  /\ w.app.latency_process /= NoProc
  /\ w.procs[w.app.latency_process] = "Running"

\* The guard of run_latency_test, line 102: a test is in progress.
TestInProgress(w) == InProgress(w)

\* The session number of the next QProcess().
NewSession(w) == 1 + Cardinality({k \in Sessions : w.procs[k] /= "Unborn"})

\* The resolution that tries jack_iodelay first.
WhichFallbackFirst(installed) ==
  IF "jack_iodelay" \in installed THEN "jack_iodelay"
  ELSE IF "jack_delay" \in installed THEN "jack_delay"
  ELSE None

\* shutil.which("jack_delay"), then shutil.which("jack_iodelay")
Which(installed) ==
  IF "jack_delay" \in installed THEN "jack_delay"
  ELSE IF "jack_iodelay" \in installed THEN "jack_iodelay"
  ELSE None

\* sum(val[i] for val in self.latency_values)
RECURSIVE Sum(_, _)
Sum(vals, i) == IF vals = <<>> THEN 0 ELSE vals[1][i] + Sum(Tail(vals), i)

\* The mean cut to three decimal places and not rounded.
Mean3Truncated(total, count) == total \div count

\* f"{total / count:.3f}", in thousandths, rounded to the nearest.
Mean3(total, count) == (2 * total + count) \div (2 * count)

\* The items of a combo box and the item shown after it is rebuilt: the
\* stored name where it is among the items, the placeholder otherwise.
Restored(alias, items) == IF alias \in items THEN alias ELSE None

\* A refresh with the signals of the combo boxes not blocked: clear() makes
\* the selection handlers store the data of no item.
PopulateLatencyCombosUnblocked(w) ==
  [w EXCEPT
    !.app.input_items = w.ports \cap CapturePorts,
    !.app.output_items = w.ports \cap PlaybackPorts,
    !.app.latency_selected_input_alias = None,
    !.app.latency_selected_output_alias = None,
    !.app.input_current = None,
    !.app.output_current = None]

\* _populate_latency_combos: both lists are rebuilt from the physical ports
\* of the graph and the stored names are shown again where still present;
\* signals are blocked, so the stored names do not change.
PopulateLatencyCombos(w) ==
  [w EXCEPT
    !.app.input_items = w.ports \cap CapturePorts,
    !.app.output_items = w.ports \cap PlaybackPorts,
    !.app.input_current =
      Restored(w.app.latency_selected_input_alias, w.ports \cap CapturePorts),
    !.app.output_current =
      Restored(w.app.latency_selected_output_alias, w.ports \cap PlaybackPorts)]

\* History: the output handled while the session is past the signal.
Fed(w, data) ==
  IF w.app.latency_waiting_for_connection THEN w
  ELSE [w EXCEPT !.fed =
         [on |-> TRUE,
          base |-> IF @.on THEN @.base ELSE w.app.latency_values,
          data |-> @.data \o data]]

\* A detection that starts the timer at every chunk with a measurement.
DetectConnectionEveryTime(w, data) ==
  IF LooseSearch(data)
    THEN [w EXCEPT
           !.app.latency_waiting_for_connection = FALSE,
           !.app.text = {Msg("Connection detected. Running test...")},
           !.app.timer_conns = IF @ < 2 THEN @ + 1 ELSE @,
           !.app.timer_active = TRUE,
           !.timerSession = w.app.latency_process,
           !.last.arms = @ + 1]
    ELSE w

\* A detection that does not start the timer.
DetectConnectionNoTimer(w, data) ==
  IF w.app.latency_waiting_for_connection /\ LooseSearch(data)
    THEN [w EXCEPT
           !.app.latency_waiting_for_connection = FALSE,
           !.app.text = {Msg("Connection detected. Running test...")}]
    ELSE w

\* handle_latency_output, lines 169-177: the connection signal starts the
\* 10 s timer and connects stop_latency_test to it once more.
DetectConnection(w, data) ==
  IF w.app.latency_waiting_for_connection /\ LooseSearch(data)
    THEN [w EXCEPT
           !.app.latency_waiting_for_connection = FALSE,
           !.app.text = {Msg("Connection detected. Running test...")},
           !.app.timer_conns = IF @ < 2 THEN @ + 1 ELSE @,
           !.app.timer_active = TRUE,
           !.timerSession = w.app.latency_process,
           !.last.arms = @ + 1]
    ELSE w

\* handle_latency_output, lines 180-191
ParseValues(w, data) ==
  IF ~w.app.latency_waiting_for_connection
    THEN [w EXCEPT !.app.latency_values = @ \o ParseSamples(data)]
    ELSE w

\* handle_latency_output, lines 161-165
InsertRaw(w, data) ==
  IF data = <<>> THEN w ELSE [w EXCEPT !.app.text = @ \cup {Msg("raw output")}]

\* readAllStandardOutput()
ReadAll(w) == [w EXCEPT !.pipe = <<>>]

\* handle_latency_output: all the output available is read and handled.
HandleLatencyOutput(w) ==
  IF w.app.latency_process = NoProc THEN w
  ELSE IF w.app.raw_checked THEN ReadAll(InsertRaw(w, w.pipe))
  ELSE ReadAll(ParseValues(DetectConnection(Fed(w, w.pipe), w.pipe), w.pipe))

\* A report that has one message for a crash and for a failed exit.
ReportFailureAsStopped(vals, raw, exit_code, exit_status) ==
  IF raw THEN Msg("Measurement stopped.")
  ELSE IF vals /= <<>>
    THEN <<"Round-trip latency (average)",
           Mean3(Sum(vals, 1), Len(vals)), Mean3(Sum(vals, 2), Len(vals))>>
  ELSE IF exit_status = "NormalExit" /\ exit_code = 0
    THEN Msg("No valid latency readings obtained. Check connections.")
  ELSE Msg("Measurement stopped.")

\* The text handle_latency_finished reports.
Report(vals, raw, exit_code, exit_status) ==
  IF raw THEN Msg("Measurement stopped.")
  ELSE IF vals /= <<>>
    THEN <<"Round-trip latency (average)",
           Mean3(Sum(vals, 1), Len(vals)), Mean3(Sum(vals, 2), Len(vals))>>
  ELSE IF exit_status = "NormalExit" /\ exit_code = 0
    THEN Msg("No valid latency readings obtained. Check connections.")
  ELSE IF exit_status = "CrashExit" THEN Msg("Measurement stopped.")
  ELSE IF exit_code /= 0 THEN <<"Test failed (Exit code)", exit_code>>
  ELSE Msg("Test finished without valid readings.")

\* handle_latency_finished(exit_code, exit_status)
\* handle_latency_finished without line 244: Stop stays enabled.
HandleLatencyFinishedKeepsStop(w, exit_code, exit_status) ==
  [w EXCEPT
    !.app.text = {Report(w.app.latency_values, w.app.raw_checked,
                         exit_code, exit_status)},
    !.app.latency_waiting_for_connection = FALSE,
    !.app.run_enabled = TRUE,
    !.app.latency_process = NoProc,
    !.last.reports = @ + 1,
    !.last.finished = <<exit_code, exit_status>>]

HandleLatencyFinished(w, exit_code, exit_status) ==
  [w EXCEPT
    !.app.text = {Report(w.app.latency_values, w.app.raw_checked,
                         exit_code, exit_status)},
    !.app.latency_waiting_for_connection = FALSE,
    !.app.run_enabled = TRUE,
    !.app.stop_enabled = FALSE,
    !.app.latency_process = NoProc,
    !.last.reports = @ + 1,
    !.last.finished = <<exit_code, exit_status>>]

\* The graph without the ports in gone and without their connections.
Unregistered(w, gone) ==
  [w EXCEPT
    !.ports = @ \ gone,
    !.edges = {e \in @ : e[1] \notin gone /\ e[2] \notin gone},
    !.quietRuns = IF w.ports \cap gone = {} THEN @ ELSE 0]

\* The process of session k is gone, and with it its ports.
Exited(w, k) ==
  [Unregistered(w, ToolPorts) EXCEPT !.procs[k] = "NotRunning", !.script = <<>>]

\* handle_latency_error, lines 249-254
ErrorReported(w) ==
  [w EXCEPT
    !.app.text = @ \cup {Msg("Error running jack_delay")},
    !.app.timer_active = FALSE,
    !.last.reports = @ + 1]

\* A clean-up that leaves the buttons as they are.
ErrorClearedKeepsButtons(w) ==
  [w EXCEPT
    !.app.latency_process = NoProc,
    !.app.latency_waiting_for_connection = FALSE]

\* handle_latency_error, lines 260-264, when latency_process is not None
\* and lines 262-264 when it is
ErrorCleared(w) ==
  [w EXCEPT
    !.app.latency_process = NoProc,
    !.app.latency_waiting_for_connection = FALSE,
    !.app.run_enabled = TRUE,
    !.app.stop_enabled = FALSE]

\* handle_latency_error(error) for a process that is not running: nothing
\* is killed.
HandleLatencyErrorNotRunning(w, error) == ErrorCleared(ErrorReported(w))

\* The signals QProcess emits, in this order and within one call, when the
\* process has exited: readyReadStandardOutput for the output still unread,
\* errorOccurred(Crashed) after a crash, and finished.
ExitSignals(w, exit_code, exit_status) ==
  HandleLatencyFinished(
    ReadAll(IF exit_status = "CrashExit"
              THEN HandleLatencyErrorNotRunning(HandleLatencyOutput(w), "Crashed")
              ELSE HandleLatencyOutput(w)),
    exit_code, exit_status)

\* The process of session k exits.
ProcessDied(w, k, exit_code, exit_status) ==
  ExitSignals(Exited(w, k), exit_code, exit_status)

\* handle_latency_error, lines 257-259: kill() and waitForFinished()
\* handle_latency_error without lines 255-256: the process is left as it is.
KillRunningSkipped(w) == w

KillRunning(w) ==
  IF InProgress(w)
    THEN ProcessDied([w EXCEPT !.last.kill = TRUE],
                     w.app.latency_process, 9, "CrashExit")
    ELSE w

\* handle_latency_error(error)
HandleLatencyError(w, error) == ErrorCleared(KillRunning(ErrorReported(w)))

\* How the process can answer terminate() within waitForFinished(500).
StopOutcomes(w) ==
  IF ~InProgress(w) THEN {"no process"}
  ELSE {"exit 0", "exit 1", "killed by SIGTERM", "still running"}
         \cup (IF w.procs[w.app.latency_process] = "Starting"
                 THEN {"failed to start"} ELSE {})

ExitCodeOf(outcome) ==
  CASE outcome = "exit 0" -> 0
    [] outcome = "exit 1" -> 1
    [] outcome = "killed by SIGTERM" -> 15
    [] outcome = "still running" -> 9

ExitStatusOf(outcome) ==
  IF outcome \in {"exit 0", "exit 1"} THEN "NormalExit" ELSE "CrashExit"

\* stop_latency_test, lines 199-200: terminate()
Terminate(w) ==
  [w EXCEPT
    !.app.text = @ \cup {Msg("Stopping test...")},
    !.last.terminate = TRUE,
    !.last.stopped = w.app.latency_process]

\* waitForFinished(500) after terminate(): the process exits within the
\* 500 ms and its signals are delivered, or the wait expires.
WaitedFor(w, k, outcome) ==
  IF outcome = "still running"
    THEN [w EXCEPT !.last.waited = "expired"]
    ELSE ProcessDied([w EXCEPT !.last.waited = "exited"],
                     k, ExitCodeOf(outcome), ExitStatusOf(outcome))

\* stop_latency_test, lines 202-204, with the wait on kill() left out: the
\* process is not killed when the 500 ms expire.
KilledIfExpiredNoKill(w, k) == w

\* stop_latency_test, lines 202-204: kill() and waitForFinished() when
\* waitForFinished(500) was False.
KilledIfExpired(w, k) ==
  IF w.last.waited = "expired"
    THEN ProcessDied([w EXCEPT !.last.kill = TRUE], k, ExitCodeOf("still running"),
                     ExitStatusOf("still running"))
    ELSE w

\* stop_latency_test, lines 202-206.  The process started and exits within
\* the 500 ms, or it is killed; or it fails to start: errorOccurred clears
\* the handle within waitForFinished(500), which is False, and
\* self.latency_process.kill() raises on None.
WaitForFinished(w, k, outcome) ==
  IF outcome = "failed to start"
    THEN [HandleLatencyErrorNotRunning(
            Exited([w EXCEPT !.last.waited = "failed to start"], k),
            "FailedToStart")
            EXCEPT !.last.raised = TRUE]
    ELSE [KilledIfExpired(WaitedFor(w, k, outcome), k)
            EXCEPT !.app.latency_waiting_for_connection = FALSE]

\* stop_latency_test, lines 195-196
TimerStopped(w) == [w EXCEPT !.app.timer_active = FALSE]

\* stop_latency_test
StopLatencyTest(w, outcome) ==
  IF InProgress(w)
    THEN WaitForFinished(Terminate(TimerStopped(w)), w.app.latency_process, outcome)
    ELSE TimerStopped(w)

\* run_latency_test, lines 109-127
SessionCreated(w, k) ==
  [w EXCEPT
    !.app.run_enabled = FALSE,
    !.app.stop_enabled = TRUE,
    !.app.text = IF w.app.raw_checked
                   THEN {Msg("Starting latency test (Raw Output)...")}
                   ELSE {Msg("Starting latency test (Average)...")},
    !.app.latency_values = <<>>,
    !.app.latency_waiting_for_connection = ~w.app.raw_checked,
    !.app.latency_process = k,
    !.fed = [on |-> FALSE, base |-> <<>>, data |-> <<>>]]

\* run_latency_test, lines 134-151
ProgramStarted(w, program, k, text) ==
  IF program = None
    THEN [w EXCEPT
           !.app.text = {Msg("Error: Neither 'jack_delay' nor 'jack_iodelay' found.")},
           !.app.run_enabled = TRUE,
           !.app.stop_enabled = FALSE,
           !.app.latency_process = NoProc,
           !.last.program = None]
    ELSE [w EXCEPT
           !.last.program = program,
           !.procs[k] = "Starting",
           !.script = text,
           !.pipe = <<>>,
           !.sessionMode = IF w.app.raw_checked THEN "Raw" ELSE "Average"]

\* run_latency_test with the samples reset ahead of its guard.
RunLatencyTestResetFirst(w, installed, text) ==
  IF TestInProgress(w)
    THEN [w EXCEPT !.app.text = @ \cup {Msg("Test already in progress.")},
                   !.app.latency_values = <<>>,
                   !.last.busy = TRUE]
    ELSE ProgramStarted(SessionCreated(PopulateLatencyCombos(w), NewSession(w)),
                        Which(installed), NewSession(w), text)

\* run_latency_test; installed are the executables on the PATH, text is
\* what the started tool is going to print.
RunLatencyTest(w, installed, text) ==
  IF TestInProgress(w)
    THEN [w EXCEPT !.app.text = @ \cup {Msg("Test already in progress.")},
                   !.last.busy = TRUE]
    ELSE ProgramStarted(SessionCreated(PopulateLatencyCombos(w), NewSession(w)),
                        Which(installed), NewSession(w), text)

(***************************************************************************)
(* Auto-connection of the selected ports.                                  *)
(***************************************************************************)
\* make_connection(output_name, input_name).  get_all_connections raises
\* JackError for a port that is not in the graph, and connect is then tried
\* anyway; connect itself fails unless both ports are in the graph.
MakeConnection(w, output_name, input_name) ==
  IF output_name \in w.ports /\ <<output_name, input_name>> \in w.edges
    THEN w
    ELSE [w EXCEPT
           !.last.connects =
             Append(@, [source |-> output_name, destination |-> input_name,
                        source_exists |-> output_name \in w.ports,
                        destination_exists |-> input_name \in w.ports,
                        connected |-> <<output_name, input_name>> \in w.edges]),
           !.edges = IF output_name \in w.ports /\ input_name \in w.ports
                       THEN @ \cup {<<output_name, input_name>>} ELSE @]

\* _attempt_latency_auto_connection, lines 464-467
ConnectOutput(w, output_to_connect) ==
  IF output_to_connect \in {p \in w.ports : IsInput(p)}
    THEN MakeConnection(w, ToolOut, output_to_connect)
    ELSE w

\* _attempt_latency_auto_connection, lines 471-474
ConnectInput(w, input_to_connect) ==
  IF input_to_connect \in {p \in w.ports : ~IsInput(p)}
    THEN MakeConnection(w, input_to_connect, ToolIn)
    ELSE w

\* The second edge, given up when the connect call of the first one failed.
ConnectInputUnlessFailed(w, input_to_connect) ==
  IF w.last.connects /= <<>> /\ ~w.last.connects[1].source_exists
    THEN w
    ELSE ConnectInput(w, input_to_connect)

\* A reconciliation that a failure on its first edge ends.
AttemptStopsAtFailure(w) ==
  IF w.app.latency_selected_input_alias /= None
       /\ w.app.latency_selected_output_alias /= None
    THEN ConnectInputUnlessFailed(
           ConnectOutput([w EXCEPT !.last.reconciled = TRUE],
                         w.app.latency_selected_output_alias),
           w.app.latency_selected_input_alias)
    ELSE w

\* _attempt_latency_auto_connection
\* _attempt_latency_auto_connection with 'or' for the 'and' of lines 447-448.
AttemptWithEitherSide(w) ==
  IF w.app.latency_selected_input_alias /= None
       \/ w.app.latency_selected_output_alias /= None
    THEN ConnectInput(ConnectOutput([w EXCEPT !.last.reconciled = TRUE],
                                    w.app.latency_selected_output_alias),
                      w.app.latency_selected_input_alias)
    ELSE w

AttemptLatencyAutoConnection(w) ==
  IF w.app.latency_selected_input_alias /= None
       /\ w.app.latency_selected_output_alias /= None
    THEN ConnectInput(ConnectOutput([w EXCEPT !.last.reconciled = TRUE],
                                    w.app.latency_selected_output_alias),
                      w.app.latency_selected_input_alias)
    ELSE w

\* _on_port_registered(port_name, is_input)
OnPortRegistered(w, port_name, is_input) ==
  [w EXCEPT
    !.pendAttempt = IF port_name = ToolIn \/ port_name = ToolOut
                      THEN @ + 1 ELSE @,
    !.pendRefresh = IF LooksPhysical(port_name) THEN @ + 1 ELSE @]

\* A callback that runs the slot itself, in the thread of JACK.
HandlePortRegistrationDirect(w, port, register) ==
  IF register
    THEN OnPortRegistered(w, port, IsInput(port))
    ELSE w

\* _handle_port_registration(port, register), in the thread of JACK: emits
\* port_registered, which Qt queues for the main thread.
HandlePortRegistration(w, port, register) ==
  IF register
    THEN [w EXCEPT !.regQueue = Append(@, <<port, IsInput(port)>>)]
    ELSE w

\* _on_latency_input_selected(index), item the data of the item chosen
OnLatencyInputSelected(w, item) ==
  AttemptLatencyAutoConnection(
    [w EXCEPT !.app.input_current = item,
              !.app.latency_selected_input_alias = item])

\* _on_latency_output_selected(index), item the data of the item chosen
OnLatencyOutputSelected(w, item) ==
  AttemptLatencyAutoConnection(
    [w EXCEPT !.app.output_current = item,
              !.app.latency_selected_output_alias = item])

(***************************************************************************)
(* Events: the user, the Qt event loop, the tool and the graph.            *)
(***************************************************************************)
\* the Start measurement button, or a call of run_latency_test, with one of
\* paths as the executables installed and one of texts as the tool's output
Run(texts, paths) ==
  \E installed \in paths, text \in texts :
    /\ (TestInProgress(World) \/ Which(installed) = None
          \/ NewSession(World) <= MaxSessions)
    /\ Becomes(RunLatencyTest([Enter(World, "run") EXCEPT !.last.installed = installed],
                               installed, text))

RunClicked == Run(Scripts, SUBSET Binaries)

\* the same, with both tools installed and a tool that prints nothing
RunSilent == Run({<<>>}, {Binaries})

\* the same, with both tools installed and a tool that prints measurements
RunMeasuring == Run({t \in Scripts : LooseSearch(t)}, {Binaries})

\* The second slot call of a timeout to which stop_latency_test is connected
\* more than once (any further one finds what the second leaves).
StopAgain(w, outcome) ==
  IF w.app.timer_conns > 1 /\ ~w.last.raised
    THEN StopLatencyTest(w, outcome) ELSE w

\* the Stop button, or a call of stop_latency_test
StopClicked ==
  \E outcome \in StopOutcomes(World) :
    Becomes(StopLatencyTest(Enter(World, "stop"), outcome))

\* latency_timer.timeout: the timer is single shot, and stop_latency_test
\* is connected to it once for every connection signal detected so far.
Timeout ==
  /\ app.timer_active
  /\ \E outcome \in StopOutcomes(World) :
       Becomes(StopAgain(StopLatencyTest(TimerStopped(Enter(World, "timeout")),
                                         outcome),
                         outcome))

\* the user toggles the Show Raw Output checkbox
ToggleRaw ==
  Becomes([Enter(World, "toggle") EXCEPT !.app.raw_checked = ~@])

\* the process of a session has started
Started ==
  \E k \in Sessions :
    /\ procs[k] = "Starting"
    /\ Becomes([Enter(World, "started") EXCEPT !.procs[k] = "Running"])

\* errorOccurred(FailedToStart)
FailedToStart ==
  \E k \in Sessions :
    /\ procs[k] = "Starting"
    /\ Becomes(HandleLatencyError(
                 [Enter(World, "error") EXCEPT
                    !.procs[k] = "NotRunning", !.script = <<>>],
                 "FailedToStart"))

\* errorOccurred(ReadError, WriteError or UnknownError) of a running process
RuntimeError ==
  /\ app.latency_process /= NoProc
  /\ procs[app.latency_process] = "Running"
  /\ Becomes(HandleLatencyError(Enter(World, "error"), "ReadError"))

\* The position of the end of the first line of s.
FirstLineEnd(s) == Least({i \in 1..Len(s) : s[i] = "\n" \/ i = Len(s)})

\* the tool prints n more characters
Written(n) ==
  /\ app.latency_process /= NoProc
  /\ procs[app.latency_process] = "Running"
  /\ n \in 1..Len(script)
  /\ Becomes([Enter(World, "write") EXCEPT
               !.pipe = @ \o SubSeq(script, 1, n),
               !.script = SubSeq(script, n + 1, Len(script))])

\* the tool prints one line
ToolWritesLine == Written(FirstLineEnd(script))

\* the tool's output reaches the pipe at any byte
ToolWritesBytes == \E n \in 1..Len(script) : Written(n)

\* readyReadStandardOutput
ReadyRead ==
  /\ pipe /= <<>>
  /\ Becomes(HandleLatencyOutput(Enter(World, "output")))

\* the process exits on its own, or crashes
ProcessExit ==
  \E k \in Sessions,
     how \in {<<0, "NormalExit">>, <<1, "NormalExit">>, <<11, "CrashExit">>} :
    /\ procs[k] = "Running"
    /\ Becomes(ProcessDied(Enter(World, "exit"), k, how[1], how[2]))

\* the running tool registers one of its ports
ToolRegisters ==
  \E p \in ToolPorts \ ports :
    /\ app.latency_process /= NoProc
    /\ procs[app.latency_process] = "Running"
    /\ Len(regQueue) < MaxQueue
    /\ Becomes(HandlePortRegistration(
                 [Enter(World, "graph") EXCEPT
                    !.ports = @ \cup {p}, !.quietRuns = 0],
                 p, TRUE))

\* a physical port appears
PhysRegisters ==
  \E p \in PhysicalPorts \ ports :
    /\ Len(regQueue) < MaxQueue
    /\ Becomes(HandlePortRegistration(
                 [Enter(World, "graph") EXCEPT
                    !.ports = @ \cup {p}, !.quietRuns = 0],
                 p, TRUE))

\* a physical port disappears
PhysUnregisters ==
  \E p \in PhysicalPorts \cap ports :
    Becomes(HandlePortRegistration(
              Unregistered(Enter(World, "graph"), {p}), p, FALSE))

\* the main thread delivers a queued port_registered signal
PortRegistered ==
  /\ regQueue /= <<>>
  /\ pendAttempt < MaxPending
  /\ pendRefresh < MaxPending
  /\ Becomes(OnPortRegistered(
               [Enter(World, "registered") EXCEPT !.regQueue = Tail(@)],
               Head(regQueue)[1], Head(regQueue)[2]))

\* a delayed _attempt_latency_auto_connection fires
AttemptTimer ==
  /\ pendAttempt > 0
  /\ Becomes(AttemptLatencyAutoConnection(
               [Enter(World, "attempt") EXCEPT
                  !.pendAttempt = @ - 1,
                  !.quietRuns = IF @ < 2 THEN @ + 1 ELSE @]))

\* a delayed _populate_latency_combos fires
RefreshTimer ==
  /\ pendRefresh > 0
  /\ Becomes(PopulateLatencyCombos(
               [Enter(World, "refresh") EXCEPT !.pendRefresh = @ - 1]))

\* the Refresh Ports button
RefreshClicked == Becomes(PopulateLatencyCombos(Enter(World, "refresh")))

\* the user picks another item of the input combo box
SelectInput ==
  \E item \in (app.input_items \cup {None}) \ {app.input_current} :
    Becomes(OnLatencyInputSelected(
              [Enter(World, "select") EXCEPT !.quietRuns = 1], item))

\* the user picks another item of the output combo box
SelectOutput ==
  \E item \in (app.output_items \cup {None}) \ {app.output_current} :
    Becomes(OnLatencyOutputSelected(
              [Enter(World, "select") EXCEPT !.quietRuns = 1], item))

(***************************************************************************)
(* Specifications.                                                         *)
(***************************************************************************)
\* The measurement session: the tool prints whole lines, the graph is still.
Next ==
  \/ RunClicked
  \/ StopClicked
  \/ Timeout
  \/ ToggleRaw
  \/ Started
  \/ FailedToStart
  \/ RuntimeError
  \/ ToolWritesLine
  \/ ReadyRead
  \/ ProcessExit

Spec == Init /\ [][Next]_vars

\* The same, with a started latency_timer that fires in the end. This is weak
\* fairness of Timeout with its enabling condition written out: Timeout is
\* enabled exactly when the timer is active, and every Timeout step leaves
\* the single-shot timer inactive.
SpecLive ==
  Spec /\ ([]<>(~app.timer_active) \/ []<><<Timeout>>_vars)

\* The auto-connection: ports come and go, the tool prints nothing.
NextGraph ==
  \/ RunSilent
  \/ Started
  \/ ProcessExit
  \/ ToolRegisters
  \/ PhysRegisters
  \/ PhysUnregisters
  \/ PortRegistered
  \/ AttemptTimer
  \/ RefreshTimer
  \/ RefreshClicked
  \/ SelectInput
  \/ SelectOutput

SpecGraph == Init /\ [][NextGraph]_vars

\* The output of an Average session, cut into chunks at any byte.
NextChunk ==
  \/ RunMeasuring
  \/ Started
  \/ ToolWritesBytes
  \/ ReadyRead
  \/ ProcessExit

SpecChunk == Init /\ [][NextChunk]_vars

\* One session and the registrations of its ports and of physical ports.
NextLink ==
  \/ RunSilent
  \/ Started
  \/ ToolRegisters
  \/ PhysRegisters
  \/ PhysUnregisters
  \/ PortRegistered
  \/ AttemptTimer
  \/ RefreshTimer
  \/ SelectInput
  \/ SelectOutput

SpecLink == Init /\ [][NextLink]_vars

\* The selection across sessions and refreshes of the port lists.
NextSelect ==
  \/ RunSilent
  \/ Started
  \/ StopClicked
  \/ ProcessExit
  \/ PhysRegisters
  \/ PhysUnregisters
  \/ PortRegistered
  \/ RefreshTimer
  \/ RefreshClicked
  \/ SelectInput
  \/ SelectOutput

SpecSelect == Init /\ [][NextSelect]_vars

(***************************************************************************)
(* The claims.                                                             *)
(***************************************************************************)
\* The processes that have not exited.
Live == {k \in Sessions : procs[k] \in {"Starting", "Running"}}

\* C1, as claimed: cutting the output of an Average session that is past
\* the connection signal into chunks does not change the samples appended:
\* they are the samples of the whole text handled in one call.
C1_ChunkInvariance ==
  fed.on => app.latency_values = fed.base \o ParseSamples(fed.data)

\* C2, as claimed: the deadline of one session never acts on a later one: a
\* timeout that stops a process stops the process of the session whose
\* output started the timer.
C2_DeadlineStopsOwnSession ==
  (last.op = "timeout" /\ last.terminate) => last.stopped = timerSession

\* C3, as claimed: every connect call of a reconciliation is for an edge
\* whose two ports are in the graph and which is not connected yet.
C3_ConnectOnlyExistingUnconnected ==
  \A i \in 1..Len(last.connects) :
    /\ last.connects[i].source_exists
    /\ last.connects[i].destination_exists
    /\ ~last.connects[i].connected

\* Both sides are selected and the four ports are in the graph.
Connectable ==
  /\ app.latency_selected_input_alias \in ports
  /\ app.latency_selected_output_alias \in ports
  /\ ToolPorts \subseteq ports

\* No registration is waiting to be handled and no delayed call is pending.
Quiescent == regQueue = <<>> /\ pendAttempt = 0 /\ pendRefresh = 0

\* C4, as claimed: whatever the order of the selections and registrations,
\* once both sides are selected and the four ports exist, both edges come to
\* exist: when nothing is left to be handled, they are there.
C4_ConnectedWhenQuiescent ==
  (Connectable /\ Quiescent) =>
    /\ <<ToolOut, app.latency_selected_output_alias>> \in edges
    /\ <<app.latency_selected_input_alias, ToolIn>> \in edges

\* C5, as claimed: the second of two reconciliations in a row, with the same
\* selected pair and a graph changed by the first one only, issues no
\* connect call.
C5_SecondRunConnectsNothing == quietRuns = 2 => last.connects = <<>>

\* C6, as claimed: a session started in Raw mode never has a sample.
C6_RawSessionHasNoSamples ==
  (sessionMode = "Raw" /\ app.latency_process /= NoProc) =>
    app.latency_values = <<>>

\* C7, as claimed: no timer ever stops a session started in Raw mode.
C7_NoTimeoutStopsRawSession ==
  (last.op = "timeout" /\ last.terminate) => sessionMode /= "Raw"

\* C8: at most one subprocess is alive in any reachable state.
C8_AtMostOneLiveProcess == Cardinality(Live) <= 1

\* C8: a second session runs after the first has ended, and a start was
\* attempted while it runs.
C8_Witness ==
  /\ procs[1] = "NotRunning" /\ procs[2] = "Running"
  /\ last.op = "run" /\ last.busy

\* C9: run_latency_test called while the process of the session has not
\* finished spawns nothing and leaves the mode, the samples, the waiting
\* flag, the deadline timer and both buttons as they are.
C9_StartWhileRunningIsNoOp ==
  [][(/\ last'.op = "run"
      /\ app.latency_process /= NoProc
      /\ procs[app.latency_process] \in {"Starting", "Running"})
     => /\ procs' = procs
        /\ sessionMode' = sessionMode
        /\ app'.latency_process = app.latency_process
        /\ app'.latency_values = app.latency_values
        /\ app'.latency_waiting_for_connection = app.latency_waiting_for_connection
        /\ app'.timer_active = app.timer_active
        /\ app'.run_enabled = app.run_enabled
        /\ app'.stop_enabled = app.stop_enabled]_vars

\* C9: a start was attempted in a session that is measuring, with samples
\* collected and the deadline pending.
C9_Witness ==
  /\ last.op = "run" /\ last.busy
  /\ app.timer_active /\ app.latency_values /= <<>>
  /\ app.latency_process /= NoProc /\ sessionMode = "Average"

\* C10, as claimed: stop_latency_test called with the handle cleared (a
\* second call, or a call after the process ended on its own) raises
\* nothing, terminates and kills nothing and changes no state of the
\* session, nor what is reported.
C10_StopIsIdempotent ==
  [][(last'.op = "stop" /\ app.latency_process = NoProc)
     => /\ app' = app
        /\ procs' = procs
        /\ ~last'.terminate /\ ~last'.kill /\ ~last'.raised]_vars

\* The session that ended in the last step was started in Average mode and
\* the toggle is where it was then.
AverageFinalized ==
  last.finished /= <<>> /\ sessionMode = "Average" /\ ~app.raw_checked

\* m is the mean of the i-th components of vals, to the nearest thousandth.
IsMean(m, vals, i) ==
  /\ 2 * (Len(vals) * m - Sum(vals, i)) <= Len(vals)
  /\ 2 * (Sum(vals, i) - Len(vals) * m) <= Len(vals)

\* r is the report of the averages of vals.
IsAverageReport(r, vals) ==
  /\ Len(r) = 3
  /\ r[1] = "Round-trip latency (average)"
  /\ IsMean(r[2], vals, 1)
  /\ IsMean(r[3], vals, 2)

C13_BinaryResolution ==
  (last.op = "run" /\ ~last.busy) =>
    /\ "jack_delay" \in last.installed => last.program = "jack_delay"
    /\ last.installed = {"jack_iodelay"} => last.program = "jack_iodelay"
    /\ last.program /= None =>
         /\ app.latency_process /= NoProc
         /\ Live = {app.latency_process}
    /\ last.installed = {} =>
         /\ last.program = None
         /\ Live = {}
         /\ app.latency_process = NoProc
         /\ app.run_enabled /\ ~app.stop_enabled
         /\ app.text = {Msg("Error: Neither 'jack_delay' nor 'jack_iodelay' found.")}
         /\ ~TestInProgress(World)

\* C13: after a session has ended, a start finds neither executable.
C13_Witness ==
  /\ last.op = "run" /\ last.installed = {}
  /\ procs[1] = "NotRunning"

\* C14: every step in which the process of a session ends (it finishes with
\* any exit code and status, fails to start, or is killed after an error)
\* leaves the handle cleared, the waiting flag reset, the start button
\* enabled and the stop button disabled, so that the next start is accepted.
C14_TerminalEventsReturnToIdle ==
  [][(\E k \in Sessions : /\ procs[k] \in {"Starting", "Running"}
                          /\ procs'[k] = "NotRunning")
     => /\ app'.latency_process = NoProc
        /\ ~app'.latency_waiting_for_connection
        /\ app'.run_enabled
        /\ ~app'.stop_enabled]_vars

\* C14: the process of the first session has failed to start and the error
\* handler has returned the controls.
C14_Witness ==
  /\ procs[1] = "NotRunning" /\ procs[2] = "Unborn"
  /\ Msg("Error running jack_delay") \in app.text
  /\ app.latency_process = NoProc
  /\ app.run_enabled /\ ~app.stop_enabled

\* C15, as claimed: when an error event and a finished event are delivered
\* for one session, its termination is reported once: the handlers called
\* in one step make at most one report.
C15_TerminationReportedOnce == last.reports <= 1

\* C16: stop_latency_test with a process to stop first calls terminate();
\* kill() is called when the process has not exited within the 500 ms and
\* only then; either way the process is not running and the controller is
\* idle when the call returns.
C16_GracefulThenKill ==
  last.terminate =>
    /\ last.waited = "exited" => ~last.kill
    /\ last.waited = "expired" => last.kill
    /\ last.kill => last.waited = "expired"
    /\ procs[last.stopped] = "NotRunning"
    /\ app.latency_process = NoProc
    /\ app.run_enabled /\ ~app.stop_enabled

\* C16: a stop has killed a process that outlived the 500 ms.
C16_Witness ==
  /\ last.op = "stop" /\ last.terminate /\ last.kill
  /\ last.waited = "expired"
  /\ procs[last.stopped] = "NotRunning"

\* A connect call for the edge from source to destination is among calls.
Attempted(calls, source, destination) ==
  \E i \in 1..Len(calls) :
    /\ calls[i].source = source
    /\ calls[i].destination = destination

C18_SelectionSticky ==
  [][/\ last'.op /= "select" =>
          /\ app'.latency_selected_input_alias = app.latency_selected_input_alias
          /\ app'.latency_selected_output_alias = app.latency_selected_output_alias
     /\ (last'.op = "refresh" \/ (last'.op = "run" /\ ~last'.busy)) =>
          /\ app'.latency_selected_input_alias \in ports' \cap CapturePorts =>
               app'.input_current = app'.latency_selected_input_alias
          /\ app'.latency_selected_output_alias \in ports' \cap PlaybackPorts =>
               app'.output_current = app'.latency_selected_output_alias
    ]_vars

\* C18: after a session has ended, a refresh shows the stored capture port,
\* which is in the graph, and keeps the stored playback port, which is not.
C18_Witness ==
  /\ last.op = "refresh"
  /\ procs[1] = "NotRunning"
  /\ app.latency_selected_input_alias \in ports
  /\ app.input_current = app.latency_selected_input_alias
  /\ app.latency_selected_output_alias \in PlaybackPorts \ ports
  /\ app.output_current = None

\* C19: the registration callback, run when a port enters or leaves the
\* graph, leaves every field of the application and both delayed calls as
\* they are and runs no reconciliation and no refresh: it only queues the
\* name and the direction of a registered port for the main thread.
C19_CallbackOnlyQueues ==
  [][(ports' /= ports /\ procs' = procs) =>
      /\ app' = app
      /\ pendAttempt' = pendAttempt
      /\ pendRefresh' = pendRefresh
      /\ ~last'.reconciled
      /\ last'.connects = <<>>
      /\ edges' \subseteq edges
      /\ \/ ports' \subseteq ports /\ regQueue' = regQueue
         \/ \E p \in ports' \ ports :
              regQueue' = Append(regQueue, <<p, IsInput(p)>>)
    ]_vars

\* C19: a port of the tool has registered while a session runs with both
\* ports selected; its signal is queued and nothing is scheduled.
C19_Witness ==
  /\ regQueue /= <<>>
  /\ Head(regQueue)[1] \in ToolPorts
  /\ app.latency_process /= NoProc
  /\ app.latency_selected_input_alias /= None
  /\ app.latency_selected_output_alias /= None
  /\ pendAttempt = 0
  /\ edges = {}

\* C20, as claimed: the mode of a session is the one it was started in,
\* whatever the toggle does during the session: the output of an Average
\* session is never passed through as raw text and its samples are averaged
\* in its report, and the output of a Raw session is never parsed for
\* samples.
C20_ModeFixedAtCreation ==
  /\ (app.latency_process /= NoProc /\ sessionMode = "Average") =>
       Msg("raw output") \notin app.text
  /\ (app.latency_process /= NoProc /\ sessionMode = "Raw") =>
       app.latency_values = <<>>
  /\ (last.finished /= <<>> /\ sessionMode = "Average"
        /\ app.latency_values /= <<>>) =>
       \E r \in app.text :
         app.text = {r} /\ IsAverageReport(r, app.latency_values)

\* C21: while a session started in Average mode waits for the connection
\* signal it has no sample and no deadline of its own is pending; the timer
\* is started at most once in a step, only in a step that ends the waiting
\* of the session, and the waiting begins only where a session is created,
\* so the deadline is armed once per session, when the signal is detected.
C21_SamplesAndDeadlineAfterSignal ==
  [][/\ (/\ app'.latency_process /= NoProc
         /\ sessionMode' = "Average"
         /\ app'.latency_waiting_for_connection) =>
          /\ app'.latency_values = <<>>
          /\ ~(app'.timer_active /\ timerSession' = app'.latency_process)
     /\ last'.arms <= 1
     /\ last'.arms = 1 =>
          /\ app.latency_process /= NoProc
          /\ app.latency_waiting_for_connection
          /\ ~app'.latency_waiting_for_connection
          /\ timerSession' = app.latency_process
     /\ (~app.latency_waiting_for_connection
           /\ app'.latency_waiting_for_connection) =>
          (last'.op = "run" /\ ~last'.busy)
    ]_vars

\* C21: the running session has just detected the signal: the timer is its
\* own and the sample of the line is there.
C21_Witness ==
  /\ last.arms = 1
  /\ app.latency_process /= NoProc
  /\ sessionMode = "Average"
  /\ ~app.latency_waiting_for_connection
  /\ app.timer_active /\ timerSession = app.latency_process
  /\ app.latency_values /= <<>>

\* A session started in Average mode has detected the connection signal and
\* its process has not ended.
Measuring ==
  /\ app.latency_process /= NoProc
  /\ sessionMode = "Average"
  /\ ~app.latency_waiting_for_connection

\* The messages of a session that has not ended.
Transient ==
  {Msg("Starting latency test (Raw Output)..."),
   Msg("Starting latency test (Average)..."),
   Msg("Connection detected. Running test..."),
   Msg("Stopping test..."),
   Msg("raw output")}

\* The controller is idle and the end of the session has been reported.
IdleReported ==
  /\ app.latency_process = NoProc
  /\ Live = {}
  /\ app.run_enabled /\ ~app.stop_enabled
  /\ app.text \ Transient /= {}

\* C22: an Average session that has detected the connection signal comes
\* to its end, with the controller idle and a result reported, whatever the
\* user does or does not do, provided the timer fires.
C22_MeasuringLeadsToIdle == Measuring ~> IdleReported

\* C22: the timeout has stopped the session whose output started the timer,
\* and the average of its samples is reported.
C22_Witness ==
  /\ last.op = "timeout" /\ last.terminate
  /\ last.stopped = timerSession
  /\ last.finished /= <<>>
  /\ IdleReported
  /\ AverageFinalized
  /\ app.latency_values /= <<>>

\* The output pending in this step is handled in it by a session that waits
\* for the connection signal, and holds a complete measurement line.
SignalLineHandled ==
  /\ app.latency_process /= NoProc
  /\ app.latency_waiting_for_connection
  /\ ParseSamples(pipe) /= <<>>
  /\ pipe' = <<>>

\* C23, as claimed: the chunk whose line first shows the connection signal
\* ends the waiting of the session and the samples of its lines are appended
\* in the same step.
C23_SignalLineIsSampled ==
  [][SignalLineHandled =>
       /\ ~app'.latency_waiting_for_connection
       /\ app'.latency_values = app.latency_values \o ParseSamples(pipe)
    ]_vars

\* C24, as claimed: every registration and every unregistration of a
\* physical port schedules a refresh of the port lists, so that with no
\* notification queued and no refresh pending the capture and playback
\* lists offered are the physical ports of the graph.
C24_ListsFollowTheGraph ==
  Quiescent =>
    /\ app.input_items = ports \cap CapturePorts
    /\ app.output_items = ports \cap PlaybackPorts

\* C25: with the handle cleared no subprocess of the controller is starting
\* or running, and the process of the handle is the only one that can be:
\* no handler, the error handler included, leaves a process behind an idle
\* controller.
C25_IdleOnlyWhenNotRunning ==
  /\ app.latency_process = NoProc => Live = {}
  /\ Live \subseteq {app.latency_process}

\* C25: an error event arrived while the process was running; the handler
\* killed it and waited before it cleared the handle.
C25_Witness ==
  /\ last.op = "other" /\ last.kill /\ last.reports > 0
  /\ app.latency_process = NoProc /\ app.run_enabled
  /\ \E k \in Sessions : procs[k] = "NotRunning"

\* The connect calls are calls for the two measurement edges of the pair
\* selected.
MeasurementEdgesOnly(calls, capture, playback) ==
  \A i \in 1..Len(calls) :
    \/ calls[i].source = ToolOut /\ calls[i].destination = playback
    \/ calls[i].source = capture /\ calls[i].destination = ToolIn

\* C26: every connect call of a step is for (tool output -> stored playback
\* selection) or (stored capture selection -> tool input), calls are made
\* only with both sides selected, and no step of the controller removes a
\* connection: the edges between ports that stay in the graph stay, whatever
\* is selected afterwards.
C26_OnlyAddsMeasurementEdges ==
  [][/\ MeasurementEdgesOnly(last'.connects,
                             app'.latency_selected_input_alias,
                             app'.latency_selected_output_alias)
     /\ last'.connects /= <<>> =>
          /\ app'.latency_selected_input_alias /= None
          /\ app'.latency_selected_output_alias /= None
     /\ {e \in edges : e[1] \in ports' /\ e[2] \in ports'} \subseteq edges'
    ]_vars

\* C26: the capture edge made for a selection is in the graph after the
\* capture selection was given up.
C26_Witness ==
  /\ last.op = "select"
  /\ app.latency_selected_input_alias = None
  /\ app.latency_selected_output_alias /= None
  /\ \E c \in CapturePorts : <<c, ToolIn>> \in edges
  /\ \E p \in PlaybackPorts : <<ToolOut, p>> \in edges

\* C27: between handlers Stop is enabled exactly when there is a process
\* handle and Run exactly when there is none: never both disabled, and Run
\* never disabled with the controller idle.
C27_ControlsFollowTheHandle ==
  /\ app.stop_enabled <=> app.latency_process /= NoProc
  /\ app.run_enabled <=> app.latency_process = NoProc
  /\ app.run_enabled \/ app.stop_enabled

\* C27: a timeout has stopped a session that was started after an earlier
\* one had ended, and the controls are those of the idle controller.
C27_Witness ==
  /\ last.op = "timeout" /\ last.terminate
  /\ last.stopped = 2
  /\ app.latency_process = NoProc
  /\ app.run_enabled /\ ~app.stop_enabled

=============================================================================
